---- MODULE Spec2Model ----
(***************************************************************************)
(* Cookie-licking detection backend (ratinto/cookies-backend).             *)
(*                                                                         *)
(* The model covers the "real GitHub" half of the service:                 *)
(*   src/api/services/real_github_service.py  (tracker client, trust       *)
(*       score, inactive-assignee detection, reminder / unassign calls)    *)
(*   src/api/real_views.py                    (the request handlers)       *)
(*   src/api/models.py                        (the persisted tables)       *)
(* and two libraries the trust score draws on:                             *)
(*   src/api/services/github_service.py       (the claiming patterns and   *)
(*       the analysis of an issue's comments)                              *)
(*   src/api/gemini_service.py                (the quality analyses and    *)
(*       the blended trust score)                                          *)
(*                                                                         *)
(* One repository is modelled.  Time is counted in whole days.  The        *)
(* upstream tracker (GitHub) is part of the state: who is assigned to an   *)
(* issue, every user's public event list, and how many reminder comments   *)
(* and assignee-clearing PATCHes it has received.                          *)
(***************************************************************************)
EXTENDS Integers, Sequences, FiniteSets, TLC

VARIABLES
    now,          \* the clock (timezone.now() / datetime.now()), in days
    ghEvents,     \* tracker: user -> public events, most recent first
    ghAssignee,   \* tracker: issue number -> assignee login, or None
    posted,       \* tracker: <<issue, login>> -> reminder comments received
    patches,      \* tracker: issue number -> assignee-clearing PATCHes received
    issues,       \* table RealIssue: issue number -> [stored, assignee]
    detections,   \* table InactiveAssigneeDetection, rows in primary-key order
    ghUsers,      \* table GitHubUser: login -> [stored, trust_score, tag]
    activityLog,  \* table RealActivityLog: set of rows, keyed by event_id
    response,     \* the answer of the last request handled
    cookieAnalysis, \* the last run of the claim detector over an issue
    aiScore,      \* the last trust score blended with the quality analyses
    ghState,      \* tracker: issue number -> "open" or "closed"
    writesSent,   \* tracker client: write requests sent over the network
    inflight,     \* the requests being served at once, each with its locals
    steps         \* the number of steps taken so far

vars == <<now, ghEvents, ghAssignee, posted, patches, issues, detections,
          ghUsers, activityLog, response, cookieAnalysis, aiScore, ghState,
          writesSent, inflight, steps>>

----------------------------------------------------------------------------
(* Bounds of the model *)

NumIssues == 1
MaxSteps == 6
MaxTrustEvents == 2
MaxOtherEvents == 1
MaxEventId == 2

(* Program constants *)

RecencyDays == 7
RecentLimit == 10
SyncLimit == 10
DaysInactive == 7
PushPoints == 3
PullRequestPoints == 2
IssueCommentPoints == 2
InactivityPenalty == 3
ReliableAbove == 10
ActiveFrom == 5
NullTime == -1

(* The grace period is stated by the docstring of                         *)
(* check_inactive_contributors only, and the score range by the sibling   *)
(* trust score of services/github_service.py; the handlers modelled here  *)
(* read neither.                                                           *)
GraceDays == 3
ScoreUpperBound == 100

----------------------------------------------------------------------------
(* Value spaces *)

Users == {"alice", "bob"}
None == "None"
Issues == 1..NumIssues
Pairs == Issues \X Users

Kinds == {"PushEvent", "PullRequestEvent", "IssueCommentEvent", "WatchEvent"}

\* A day that is already outside the recency window when the clock starts.
OldTime == 0 - (RecencyDays + 1)

Min(a, b) == IF a <= b THEN a ELSE b

Take(seq, n) == SubSeq(seq, 1, Min(n, Len(seq)))

\* An event of the tracker's feed.  ts_ok = FALSE stands for a created_at
\* that is missing or not an ISO timestamp; created_at is then meaningless.
Event(id, type, created_at, ts_ok) ==
    [id |-> id, type |-> type, created_at |-> created_at, ts_ok |-> ts_ok]

----------------------------------------------------------------------------
(* TrustScoreCalculator.calculate_trust_score *)

ScorePoints(type) ==
    IF type = "PushEvent" THEN PushPoints
    ELSE IF type = "PullRequestEvent" THEN PullRequestPoints
    ELSE IF type = "IssueCommentEvent" THEN IssueCommentPoints
    ELSE 0

RECURSIVE SumPoints(_)
SumPoints(events) ==
    IF events = <<>> THEN 0
    ELSE ScorePoints(Head(events).type) + SumPoints(Tail(events))

\* fromisoformat raises on a malformed created_at and the bare except
\* passes: such an event never sets has_recent_activity.
HasRecentActivity(events, t) ==
    \E k \in 1..Len(events) :
        events[k].ts_ok /\ events[k].created_at > t - RecencyDays

\* A faulty ladder: the top tag is given from the threshold on, not above it.
TagOf_reliable_at_threshold(score) ==
    IF score >= ReliableAbove THEN "Reliable Contributor"
    ELSE IF ActiveFrom <= score /\ score <= ReliableAbove THEN "Active Contributor"
    ELSE "Inactive / Needs Follow-up"

TagOf(score) ==
    IF score > ReliableAbove THEN "Reliable Contributor"
    ELSE IF ActiveFrom <= score /\ score <= ReliableAbove THEN "Active Contributor"
    ELSE "Inactive / Needs Follow-up"

calculate_trust_score(events, t) ==
    IF events = <<>>
    THEN [success |-> FALSE, error |-> "No events found"]
    ELSE LET recent_events == Take(events, RecentLimit)
             has_recent_activity == HasRecentActivity(recent_events, t)
             score == SumPoints(recent_events)
                      - (IF has_recent_activity THEN 0 ELSE InactivityPenalty)
         IN  [success |-> TRUE,
              trust_score |-> score,
              tag |-> TagOf(score),
              has_recent_activity |-> has_recent_activity,
              total_events_analyzed |-> Len(recent_events)]

----------------------------------------------------------------------------
(* RealGitHubService: the tracker client *)

\* get_user_events: the feed, or [] when the request fails.
get_user_events(u, ok) == IF ok THEN ghEvents[u] ELSE <<>>

\* get_repo_issues: every issue the tracker has for the repository, open or
\* closed (state=all), newest first, or [] when the request fails.
get_repo_issues(ok) ==
    LET n == Cardinality(DOMAIN ghAssignee)
    IN  IF ok THEN [k \in 1..n |-> n + 1 - k] ELSE <<>>

\* What the tracker does with a write request: it accepts it, rejects it
\* with 404 (the issue is gone), or the request fails in some other way.
\* raise_for_status turns every rejection into a RequestException.
TrackerOutcomes == {"ok", "not_found", "error"}

\* A faulty client: it sends its write request with or without a token.
WriteRequestSent_without_token(token) == TRUE

\* post_issue_comment / patch_issue_assignee return at once, before any
\* request, when the client has no access token.
WriteRequestSent(token) == token

\* They report success only when the request was sent and raised nothing.
TrackerWriteSucceeds(token, net) == WriteRequestSent(token) /\ net = "ok"

----------------------------------------------------------------------------
(* Table InactiveAssigneeDetection (unique_together issue, assignee_username) *)

NewDetection(i, u, days, score) ==
    [issue |-> i, assignee_username |-> u,
     days_inactive |-> days, trust_score_at_detection |-> score,
     reminder_sent |-> FALSE, reminder_sent_at |-> NullTime,
     unassigned |-> FALSE, unassigned_at |-> NullTime]

DetectionRows(dets, i, u) ==
    {k \in 1..Len(dets) : dets[k].issue = i /\ dets[k].assignee_username = u}

HasDetection(dets, i, u) == DetectionRows(dets, i, u) # {}

\* objects.get(issue=..., assignee_username=...): the row's position.
DetectionIndex(dets, i, u) == CHOOSE k \in DetectionRows(dets, i, u) : TRUE

\* The row of (issue i, assignee u), for a pair that has one.
DetectionOf(dets, i, u) == dets[DetectionIndex(dets, i, u)]

\* A faulty upsert: a plain create, which never looks for the pair's row.
update_or_create_always_creates(dets, i, u, days, score) ==
    Append(dets, NewDetection(i, u, days, score))

\* A faulty upsert: the pair's row is written anew, as if just created.
update_or_create_resets_row(dets, i, u, days, score) ==
    IF HasDetection(dets, i, u)
    THEN [dets EXCEPT ![DetectionIndex(dets, i, u)] =
              NewDetection(i, u, days, score)]
    ELSE Append(dets, NewDetection(i, u, days, score))

\* objects.update_or_create(issue, assignee_username, defaults={days_inactive,
\* trust_score_at_detection}): an existing row keeps every other column.
update_or_create(dets, i, u, days, score) ==
    IF HasDetection(dets, i, u)
    THEN [dets EXCEPT ![DetectionIndex(dets, i, u)] =
              [@ EXCEPT !.days_inactive = days,
                        !.trust_score_at_detection = score]]
    ELSE Append(dets, NewDetection(i, u, days, score))

\* objects.filter(issue=issue).first(): the issue's row with the lowest
\* primary key, whoever its assignee_username is; 0 when there is none.
FirstForIssue(dets, i) ==
    LET rows == {k \in 1..Len(dets) : dets[k].issue = i}
    IN  IF rows = {} THEN 0
        ELSE CHOOSE k \in rows : \A j \in rows : k <= j

----------------------------------------------------------------------------
(* CookieLickingDetector.check_inactive_contributors *)

\* The detections of one pass over `fetched`, a sequence of issue numbers.
\* evOk is the set of users whose event feed could be fetched.
RECURSIVE InactiveDetections(_, _)
InactiveDetections(fetched, evOk) ==
    IF fetched = <<>> THEN <<>>
    ELSE LET i == Head(fetched)
             rest == InactiveDetections(Tail(fetched), evOk)
             assignee == ghAssignee[i]
         IN  IF assignee = None THEN rest
             ELSE LET trust_data ==
                          calculate_trust_score(
                              get_user_events(assignee, assignee \in evOk), now)
                  IN  IF ~trust_data.success THEN rest
                      ELSE IF ~trust_data.has_recent_activity
                      THEN <<[issue_number |-> i,
                              assignee |-> assignee,
                              trust_score |-> trust_data.trust_score,
                              tag |-> trust_data.tag,
                              days_inactive |-> DaysInactive,
                              needs_reminder |-> TRUE]>> \o rest
                      ELSE rest

\* One try/except encloses the whole loop.  `malformed` is the set of issues
\* whose payload makes the loop body raise (an assignee that is no object, so
\* that assignee.get fails): one of them among the fetched issues ends the
\* pass, which returns [] and drops what it had found.
check_inactive_contributors(issuesOk, evOk, malformed) ==
    LET fetched == get_repo_issues(issuesOk)
    IN  IF \E k \in 1..Len(fetched) : fetched[k] \in malformed
        THEN <<>>
        ELSE InactiveDetections(fetched, evOk)

\* The loop of analyze_inactive_contributors that stores the detections: a
\* detection whose issue is not in RealIssue is logged and dropped.
RECURSIVE StoreDetections(_, _)
StoreDetections(found, dets) ==
    IF found = <<>> THEN dets
    ELSE LET d == Head(found)
         IN  StoreDetections(
                 Tail(found),
                 IF issues[d.issue_number].stored
                 THEN update_or_create(dets, d.issue_number, d.assignee,
                                       d.days_inactive, d.trust_score)
                 ELSE dets)

----------------------------------------------------------------------------
(* Request handlers of real_views.py *)

Responded(op, status) == [op |-> op, status |-> status]

\* GET issues/ : get_user_issues.  Every fetched issue (the first SyncLimit)
\* is upserted with the tracker's assignee and state; an issue whose payload
\* raises is logged and skipped (the try/except is inside the loop).
get_user_issues(issuesOk, malformed) ==
    LET fetched == Take(get_repo_issues(issuesOk), SyncLimit)
        synced == {fetched[k] : k \in 1..Len(fetched)} \ malformed
    IN  /\ issues' = [i \in DOMAIN issues |->
                        IF i \in synced
                        THEN [stored |-> TRUE, assignee |-> ghAssignee[i],
                              status |-> ghState[i]]
                        ELSE issues[i]]
        /\ response' = Responded("issues", 200)
        /\ UNCHANGED <<now, ghEvents, ghAssignee, posted, patches, detections,
                       ghUsers, activityLog,
                   cookieAnalysis, aiScore, ghState, writesSent, inflight>>

\* POST analyze/ : analyze_inactive_contributors.
analyze_inactive_contributors(issuesOk, evOk, malformed) ==
    LET inactive_detections ==
            check_inactive_contributors(issuesOk, evOk, malformed)
    IN  /\ detections' = StoreDetections(inactive_detections, detections)
        /\ response' = [op |-> "analyze", status |-> 200,
                        detections |-> inactive_detections]
        /\ UNCHANGED <<now, ghEvents, ghAssignee, posted, patches, issues,
                       ghUsers, activityLog,
                   cookieAnalysis, aiScore, ghState, writesSent, inflight>>

\* The database part of send_reminder after a posted comment.  get_or_create
\* is called without defaults: creating the row would insert NULL into the
\* NOT NULL columns days_inactive and trust_score_at_detection, so a missing
\* row raises IntegrityError, which the handler's outer except answers
\* with 500.
RecordReminder(i, u) ==
    IF ~issues[i].stored
    THEN /\ detections' = detections
         /\ response' = Responded("remind", 200)
    ELSE IF HasDetection(detections, i, u)
    THEN /\ detections' =
                [detections EXCEPT ![DetectionIndex(detections, i, u)] =
                    [@ EXCEPT !.reminder_sent = TRUE,
                              !.reminder_sent_at = now]]
         /\ response' = Responded("remind", 200)
    ELSE /\ detections' = detections
         /\ response' = Responded("remind", 500)

\* A faulty handler: it records the reminder whether or not the comment was
\* posted.
send_reminder_records_unposted(i, u, token, net) ==
    /\ writesSent' = IF WriteRequestSent(token) THEN writesSent + 1
                     ELSE writesSent
    /\ posted' = IF TrackerWriteSucceeds(token, net)
                 THEN [posted EXCEPT ![<<i, u>>] = @ + 1]
                 ELSE posted
    /\ RecordReminder(i, u)
    /\ UNCHANGED <<now, ghEvents, ghAssignee, patches, issues, ghUsers,
                   activityLog,
                   cookieAnalysis, aiScore, ghState, inflight>>

\* POST remind/ : send_reminder(issue_number, assignee).
send_reminder(i, u, token, net) ==
    /\ writesSent' = IF WriteRequestSent(token) THEN writesSent + 1
                     ELSE writesSent
    /\ IF TrackerWriteSucceeds(token, net)
       THEN /\ posted' = [posted EXCEPT ![<<i, u>>] = @ + 1]
            /\ RecordReminder(i, u)
       ELSE /\ posted' = posted
            /\ detections' = detections
            /\ response' = Responded("remind", 500)
    /\ UNCHANGED <<now, ghEvents, ghAssignee, patches, issues, ghUsers,
                   activityLog,
                   cookieAnalysis, aiScore, ghState, inflight>>

\* The database part of unassign_inactive_user after a successful PATCH.
RecordRelease(i) ==
    IF ~issues[i].stored
    THEN /\ issues' = issues
         /\ detections' = detections
    ELSE /\ issues' = [issues EXCEPT ![i].assignee = None]
         /\ detections' =
                LET k == FirstForIssue(detections, i)
                IN  IF k = 0 THEN detections
                    ELSE [detections EXCEPT ![k] =
                             [@ EXCEPT !.unassigned = TRUE,
                                       !.unassigned_at = now]]

\* A faulty handler: it records the release whether or not the PATCH was
\* accepted.
unassign_inactive_user_records_unpatched(i, token, net) ==
    /\ writesSent' = IF WriteRequestSent(token) THEN writesSent + 1
                     ELSE writesSent
    /\ IF TrackerWriteSucceeds(token, net)
       THEN /\ patches' = [patches EXCEPT ![i] = @ + 1]
            /\ ghAssignee' = [ghAssignee EXCEPT ![i] = None]
       ELSE /\ patches' = patches
            /\ ghAssignee' = ghAssignee
    /\ RecordRelease(i)
    /\ response' = Responded("release", 200)
    /\ UNCHANGED <<now, ghEvents, posted, ghUsers, activityLog,
                   cookieAnalysis, aiScore, ghState, inflight>>

\* POST release/ : unassign_inactive_user(issue_number).
unassign_inactive_user(i, token, net) ==
    /\ writesSent' = IF WriteRequestSent(token) THEN writesSent + 1
                     ELSE writesSent
    /\ IF TrackerWriteSucceeds(token, net)
       THEN /\ patches' = [patches EXCEPT ![i] = @ + 1]
            /\ ghAssignee' = [ghAssignee EXCEPT ![i] = None]
            /\ RecordRelease(i)
            /\ response' = Responded("release", 200)
       ELSE /\ patches' = patches
            /\ ghAssignee' = ghAssignee
            /\ issues' = issues
            /\ detections' = detections
            /\ response' = Responded("release", 500)
    /\ UNCHANGED <<now, ghEvents, posted, ghUsers, activityLog,
                   cookieAnalysis, aiScore, ghState, inflight>>

----------------------------------------------------------------------------
(* GET contributor/<username>/ : get_contributor_activity *)

LogPoints(type) ==
    IF type = "PushEvent" THEN PushPoints
    ELSE IF type = "PullRequestEvent" THEN PullRequestPoints
    ELSE IF type = "IssueCommentEvent" THEN IssueCommentPoints
    ELSE 0

LogRow(event, username) ==
    [event_id |-> event.id,
     username |-> username,
     event_type |-> event.type,
     event_data |-> event,
     trust_score_points |-> LogPoints(event.type),
     created_at_github |-> event.created_at]

\* RealActivityLog.objects.update_or_create(event_id=..., defaults=...): the
\* row of that event_id is replaced by the defaults.
UpsertLog(log, row) ==
    {r \in log : r.event_id # row.event_id} \cup {row}

\* The loop that stores the activity log.  The defaults are built before the
\* upsert, and datetime.fromisoformat(event['created_at'].replace(...)) raises
\* on a malformed created_at: the loop stops there, the rows already written
\* stay (no transaction), and the handler's outer except answers 500.
RECURSIVE StoreLogs(_, _, _)
StoreLogs(log, events, username) ==
    IF events = <<>> THEN [log |-> log, raised |-> FALSE]
    ELSE IF ~Head(events).ts_ok THEN [log |-> log, raised |-> TRUE]
    ELSE StoreLogs(UpsertLog(log, LogRow(Head(events), username)),
                   Tail(events), username)

\* ok1 and ok2 tell whether the two fetches of the user's feed succeed.
get_contributor_activity(username, ok1, ok2) ==
    LET trust_result ==
            calculate_trust_score(get_user_events(username, ok1), now)
        events == get_user_events(username, ok2)
        stored == StoreLogs(activityLog, Take(events, RecentLimit), username)
    IN  /\ IF ~trust_result.success
           THEN /\ activityLog' = activityLog
                /\ ghUsers' = ghUsers
                /\ response' = Responded("contributor", 404)
           ELSE IF stored.raised
           THEN /\ activityLog' = stored.log
                /\ ghUsers' = ghUsers
                /\ response' = Responded("contributor", 500)
           ELSE /\ activityLog' = stored.log
                /\ ghUsers' = [ghUsers EXCEPT ![username] =
                                  [stored |-> TRUE,
                                   trust_score |-> trust_result.trust_score,
                                   tag |-> trust_result.tag]]
                /\ response' = [op |-> "contributor", status |-> 200,
                                trust_score |-> trust_result.trust_score,
                                tag |-> trust_result.tag,
                                has_recent_activity |->
                                    trust_result.has_recent_activity]
        /\ UNCHANGED <<now, ghEvents, ghAssignee, posted, patches, issues,
                       detections,
                   cookieAnalysis, aiScore, ghState, writesSent, inflight>>

----------------------------------------------------------------------------
(* The environment: the clock and the upstream tracker *)

Tick ==
    /\ now' = now + 1
    /\ UNCHANGED <<ghEvents, ghAssignee, posted, patches, issues, detections,
                   ghUsers, activityLog, response,
                   cookieAnalysis, aiScore, ghState, writesSent, inflight>>

RECURSIVE MaxId(_)
MaxId(events) ==
    IF events = <<>> THEN 0
    ELSE LET m == MaxId(Tail(events))
         IN  IF Head(events).id > m THEN Head(events).id ELSE m

\* Event ids are unique across the tracker.
FreshEventId ==
    1 + MaxId(ghEvents["alice"] \o ghEvents["bob"])

\* A user does something on the tracker: a new event heads their feed.
UserActs(u, kind) ==
    /\ ghEvents' = [ghEvents EXCEPT ![u] =
                       <<Event(FreshEventId, kind, now, TRUE)>> \o @]
    /\ UNCHANGED <<now, ghAssignee, posted, patches, issues, detections,
                   ghUsers, activityLog, response,
                   cookieAnalysis, aiScore, ghState, writesSent, inflight>>

\* Somebody changes the issue's assignee on the tracker itself.
UpstreamAssign(i, a) ==
    /\ ghAssignee[i] # a
    /\ ghAssignee' = [ghAssignee EXCEPT ![i] = a]
    /\ UNCHANGED <<now, ghEvents, posted, patches, issues, detections,
                   ghUsers, activityLog, response,
                   cookieAnalysis, aiScore, ghState, writesSent, inflight>>

\* Somebody closes the issue on the tracker.
UpstreamClose(i) ==
    /\ ghState[i] = "open"
    /\ ghState' = [ghState EXCEPT ![i] = "closed"]
    /\ UNCHANGED <<now, ghEvents, ghAssignee, posted, patches, issues,
                   detections, ghUsers, activityLog, response,
                   cookieAnalysis, aiScore, writesSent, inflight>>

----------------------------------------------------------------------------
(* The escalation machine: tracker, tables and the four handlers *)

EmptyTables ==
    /\ issues = [i \in Issues |->
                    [stored |-> FALSE, assignee |-> None, status |-> "open"]]
    /\ detections = <<>>
    /\ ghUsers = [u \in Users |->
                     [stored |-> FALSE, trust_score |-> 0, tag |-> "Unknown"]]
    /\ activityLog = {}
    /\ response = Responded("none", 0)

\* Nothing has been analysed yet.
NoAnalysis ==
    /\ cookieAnalysis = [ran |-> FALSE]
    /\ aiScore = [ran |-> FALSE]

\* The kinds of event a user produces while the machine runs.
ActKinds == {"IssueCommentEvent"}

\* An old event: the whole feed of a user who has gone quiet.
OldPush(id) == Event(id, "PushEvent", OldTime, TRUE)

\* The feeds the first assignee may have when the clock starts: none at
\* all, or one old event.
InitialFeeds == {<<>>, <<OldPush(1)>>}

Init ==
    /\ now = 0
    /\ \E feed \in InitialFeeds :
           ghEvents = [u \in Users |->
                          IF u = "alice" THEN feed ELSE <<OldPush(2)>>]
    /\ ghAssignee = [i \in Issues |-> "alice"]
    /\ posted = [p \in Pairs |-> 0]
    /\ patches = [i \in Issues |-> 0]
    /\ ghState = [i \in Issues |-> "open"]
    /\ writesSent = 0
    /\ inflight = <<>>
    /\ EmptyTables
    /\ NoAnalysis
    /\ steps = 0

\* Every step is counted, and the run ends after MaxSteps of them.
Counted ==
    /\ steps < MaxSteps
    /\ steps' = steps + 1

Next ==
    \/ Counted /\ Tick
    \/ \E u \in Users, kind \in ActKinds : Counted /\ UserActs(u, kind)
    \/ \E i \in Issues, a \in Users \cup {None} :
           Counted /\ UpstreamAssign(i, a)
    \/ \E i \in Issues : Counted /\ UpstreamClose(i)
    \/ \E issuesOk \in BOOLEAN, malformed \in SUBSET Issues :
           Counted /\ get_user_issues(issuesOk, malformed)
    \/ \E issuesOk \in BOOLEAN, evOk \in SUBSET Users,
          malformed \in SUBSET Issues :
           Counted /\ analyze_inactive_contributors(issuesOk, evOk, malformed)
    \/ \E i \in Issues, u \in Users, token \in BOOLEAN, net \in TrackerOutcomes :
           Counted /\ send_reminder(i, u, token, net)
    \/ \E i \in Issues, token \in BOOLEAN, net \in TrackerOutcomes :
           Counted /\ unassign_inactive_user(i, token, net)

Spec == Init /\ [][Next]_vars

----------------------------------------------------------------------------
(* One repository with several issues: the sync and the detection pass *)

NumPassIssues == 2

PassIssues == 1..NumPassIssues

\* Every issue is assigned, open or closed, stored or not; the first user's
\* feed is empty or old, the second user's is old.
InitPass ==
    /\ now = 0
    /\ \E feed \in InitialFeeds :
           ghEvents = [u \in Users |->
                          IF u = "alice" THEN feed ELSE <<OldPush(2)>>]
    /\ ghAssignee \in [PassIssues -> Users]
    /\ ghState \in [PassIssues -> {"open", "closed"}]
    /\ posted = [p \in PassIssues \X Users |-> 0]
    /\ patches = [i \in PassIssues |-> 0]
    /\ writesSent = 0
    /\ inflight = <<>>
    /\ issues = [i \in PassIssues |->
                    [stored |-> FALSE, assignee |-> None, status |-> "open"]]
    /\ detections = <<>>
    /\ ghUsers = [u \in Users |->
                     [stored |-> FALSE, trust_score |-> 0, tag |-> "Unknown"]]
    /\ activityLog = {}
    /\ response = Responded("none", 0)
    /\ NoAnalysis
    /\ steps = 0

NextPass ==
    \/ \E issuesOk \in BOOLEAN, malformed \in SUBSET PassIssues :
           get_user_issues(issuesOk, malformed) /\ UNCHANGED steps
    \/ \E issuesOk \in BOOLEAN, evOk \in SUBSET Users,
          malformed \in SUBSET PassIssues :
           /\ analyze_inactive_contributors(issuesOk, evOk, malformed)
           /\ UNCHANGED steps

SpecPass == InitPass /\ [][NextPass]_vars

----------------------------------------------------------------------------
(* Requests served at once.  The handlers open no transaction and take no    *)
(* lock: each tracker call, each read of a row into the request's locals and *)
(* each save() is a step of its own, and the steps of two requests may       *)
(* interleave.  Model.save() writes every column of the request's copy.      *)

MaxRequests == 2

\* Locals that hold nothing yet.
NoRow == NewDetection(0, None, 0, 0)
NoIssue == [stored |-> FALSE, assignee |-> None, status |-> "open"]

Request(op, i, u) ==
    [op |-> op, pc |-> "received", issue_number |-> i, assignee |-> u,
     status |-> 0, issue |-> NoIssue, k |-> 0, detection |-> NoRow,
     found |-> <<>>]

\* The request returns its Response.
Answer(r, status) ==
    /\ inflight' = [inflight EXCEPT ![r].pc = "done", ![r].status = status]
    /\ response' = Responded(inflight[r].op, status)

\* The request moves on to its next statement.
Goto(r, pc) ==
    /\ inflight' = [inflight EXCEPT ![r].pc = pc]
    /\ response' = response

\* send_reminder: detector.send_reminder_comment.
PostComment(r, token, net) ==
    /\ inflight[r].op = "remind"
    /\ inflight[r].pc = "received"
    /\ writesSent' = IF WriteRequestSent(token) THEN writesSent + 1
                     ELSE writesSent
    /\ IF TrackerWriteSucceeds(token, net)
       THEN /\ posted' = [posted EXCEPT
                             ![<<inflight[r].issue_number,
                                 inflight[r].assignee>>] = @ + 1]
            /\ Goto(r, "posted")
       ELSE /\ posted' = posted
            /\ Answer(r, 500)
    /\ UNCHANGED <<now, ghEvents, ghAssignee, ghState, patches, issues,
                   detections, ghUsers, activityLog, cookieAnalysis, aiScore,
                   steps>>

\* send_reminder: RealIssue.objects.get and get_or_create read the row into
\* the request's `detection`.
LoadDetection(r) ==
    /\ inflight[r].op = "remind"
    /\ inflight[r].pc = "posted"
    /\ LET i == inflight[r].issue_number
           u == inflight[r].assignee
       IN  IF ~issues[i].stored THEN Answer(r, 200)
           ELSE IF HasDetection(detections, i, u)
           THEN /\ inflight' =
                       [inflight EXCEPT
                           ![r].pc = "loaded",
                           ![r].k = DetectionIndex(detections, i, u),
                           ![r].detection = DetectionOf(detections, i, u)]
                /\ response' = response
           ELSE Answer(r, 500)
    /\ UNCHANGED <<now, ghEvents, ghAssignee, ghState, posted, patches,
                   writesSent, issues, detections, ghUsers, activityLog,
                   cookieAnalysis, aiScore, steps>>

\* send_reminder: detection.save() after the two assignments.
SaveReminder(r) ==
    /\ inflight[r].op = "remind"
    /\ inflight[r].pc = "loaded"
    /\ detections' =
           [detections EXCEPT ![inflight[r].k] =
               [inflight[r].detection EXCEPT !.reminder_sent = TRUE,
                                             !.reminder_sent_at = now]]
    /\ Answer(r, 200)
    /\ UNCHANGED <<now, ghEvents, ghAssignee, ghState, posted, patches,
                   writesSent, issues, ghUsers, activityLog, cookieAnalysis,
                   aiScore, steps>>

\* unassign_inactive_user: detector.unassign_inactive_user.
PatchAssignee(r, token, net) ==
    /\ inflight[r].op = "release"
    /\ inflight[r].pc = "received"
    /\ writesSent' = IF WriteRequestSent(token) THEN writesSent + 1
                     ELSE writesSent
    /\ IF TrackerWriteSucceeds(token, net)
       THEN /\ patches' = [patches EXCEPT ![inflight[r].issue_number] = @ + 1]
            /\ ghAssignee' =
                   [ghAssignee EXCEPT ![inflight[r].issue_number] = None]
            /\ Goto(r, "patched")
       ELSE /\ patches' = patches
            /\ ghAssignee' = ghAssignee
            /\ Answer(r, 500)
    /\ UNCHANGED <<now, ghEvents, ghState, posted, issues, detections,
                   ghUsers, activityLog, cookieAnalysis, aiScore, steps>>

\* unassign_inactive_user: RealIssue.objects.get.
LoadIssue(r) ==
    /\ inflight[r].op = "release"
    /\ inflight[r].pc = "patched"
    /\ IF ~issues[inflight[r].issue_number].stored THEN Answer(r, 200)
       ELSE /\ inflight' =
                   [inflight EXCEPT
                       ![r].pc = "issue_loaded",
                       ![r].issue = issues[inflight[r].issue_number]]
            /\ response' = response
    /\ UNCHANGED <<now, ghEvents, ghAssignee, ghState, posted, patches,
                   writesSent, issues, detections, ghUsers, activityLog,
                   cookieAnalysis, aiScore, steps>>

\* unassign_inactive_user: issue.assignee = None; issue.save().
SaveIssue(r) ==
    /\ inflight[r].op = "release"
    /\ inflight[r].pc = "issue_loaded"
    /\ issues' = [issues EXCEPT ![inflight[r].issue_number] =
                      [inflight[r].issue EXCEPT !.assignee = None]]
    /\ Goto(r, "issue_saved")
    /\ UNCHANGED <<now, ghEvents, ghAssignee, ghState, posted, patches,
                   writesSent, detections, ghUsers, activityLog,
                   cookieAnalysis, aiScore, steps>>

\* unassign_inactive_user: objects.filter(issue=issue).first().
LoadFirstDetection(r) ==
    /\ inflight[r].op = "release"
    /\ inflight[r].pc = "issue_saved"
    /\ LET k == FirstForIssue(detections, inflight[r].issue_number)
       IN  IF k = 0 THEN Answer(r, 200)
           ELSE /\ inflight' = [inflight EXCEPT ![r].pc = "loaded",
                                                ![r].k = k,
                                                ![r].detection = detections[k]]
                /\ response' = response
    /\ UNCHANGED <<now, ghEvents, ghAssignee, ghState, posted, patches,
                   writesSent, issues, detections, ghUsers, activityLog,
                   cookieAnalysis, aiScore, steps>>

\* unassign_inactive_user: detection.save() after the two assignments.
SaveRelease(r) ==
    /\ inflight[r].op = "release"
    /\ inflight[r].pc = "loaded"
    /\ detections' =
           [detections EXCEPT ![inflight[r].k] =
               [inflight[r].detection EXCEPT !.unassigned = TRUE,
                                             !.unassigned_at = now]]
    /\ Answer(r, 200)
    /\ UNCHANGED <<now, ghEvents, ghAssignee, ghState, posted, patches,
                   writesSent, issues, ghUsers, activityLog, cookieAnalysis,
                   aiScore, steps>>

\* analyze_inactive_contributors: detector.check_inactive_contributors.
RunPass(r, issuesOk, evOk, malformed) ==
    /\ inflight[r].op = "analyze"
    /\ inflight[r].pc = "received"
    /\ inflight' =
           [inflight EXCEPT
               ![r].pc = "checked",
               ![r].found =
                   check_inactive_contributors(issuesOk, evOk, malformed)]
    /\ UNCHANGED <<now, ghEvents, ghAssignee, ghState, posted, patches,
                   writesSent, issues, detections, ghUsers, activityLog,
                   response, cookieAnalysis, aiScore, steps>>

\* analyze_inactive_contributors: one turn of the storing loop, or the
\* Response after the last one.  update_or_create reads and writes the row
\* inside a transaction of its own, under select_for_update.
StoreNext(r) ==
    /\ inflight[r].op = "analyze"
    /\ inflight[r].pc = "checked"
    /\ IF inflight[r].found = <<>>
       THEN /\ detections' = detections
            /\ Answer(r, 200)
       ELSE /\ detections' =
                   StoreDetections(<<Head(inflight[r].found)>>, detections)
            /\ inflight' = [inflight EXCEPT ![r].found = Tail(@)]
            /\ response' = response
    /\ UNCHANGED <<now, ghEvents, ghAssignee, ghState, posted, patches,
                   writesSent, issues, ghUsers, activityLog, cookieAnalysis,
                   aiScore, steps>>

\* The requests that may arrive for issue 1 and its assignee.
Requests ==
    {Request("remind", 1, "alice"), Request("release", 1, None),
     Request("analyze", 0, None)}

\* Issue 1 is stored and a pass has produced the Detection of its quiet
\* assignee; MaxRequests requests have arrived and none has started.
InitConcurrent ==
    /\ now = 0
    /\ ghEvents = [u \in Users |-> <<OldPush(IF u = "alice" THEN 1 ELSE 2)>>]
    /\ ghAssignee = [i \in Issues |-> "alice"]
    /\ ghState = [i \in Issues |-> "open"]
    /\ posted = [p \in Pairs |-> 0]
    /\ patches = [i \in Issues |-> 0]
    /\ writesSent = 0
    /\ issues = [i \in Issues |->
                    [stored |-> TRUE, assignee |-> "alice", status |-> "open"]]
    /\ detections =
           StoreDetections(check_inactive_contributors(TRUE, Users, {}), <<>>)
    /\ ghUsers = [u \in Users |->
                     [stored |-> FALSE, trust_score |-> 0, tag |-> "Unknown"]]
    /\ activityLog = {}
    /\ response = Responded("analyze", 200)
    /\ NoAnalysis
    /\ inflight \in [1..MaxRequests -> Requests]
    /\ steps = 0

NextConcurrent ==
    \E r \in 1..MaxRequests :
        \/ \E token \in BOOLEAN, net \in TrackerOutcomes :
               PostComment(r, token, net)
        \/ LoadDetection(r)
        \/ SaveReminder(r)
        \/ \E token \in BOOLEAN, net \in TrackerOutcomes :
               PatchAssignee(r, token, net)
        \/ LoadIssue(r)
        \/ SaveIssue(r)
        \/ LoadFirstDetection(r)
        \/ SaveRelease(r)
        \/ \E issuesOk \in BOOLEAN, evOk \in SUBSET Users,
              malformed \in SUBSET Issues :
               RunPass(r, issuesOk, evOk, malformed)
        \/ StoreNext(r)

SpecConcurrent == InitConcurrent /\ [][NextConcurrent]_vars

----------------------------------------------------------------------------
(* The trust score alone: any feeds, and the contributor endpoint *)

SeqsUpTo(S, n) == UNION {[1..m -> S] : m \in 0..n}

\* Events of every kind that are old, of today, or carry a malformed
\* created_at.
TrustEventPool ==
    {Event(id, type, t, TRUE) :
        id \in 1..MaxEventId, type \in Kinds, t \in {OldTime, 0}}
    \cup {Event(id, type, NullTime, FALSE) :
        id \in 1..MaxEventId, type \in Kinds}

InitTrust ==
    /\ now = 0
    /\ \E fa \in SeqsUpTo(TrustEventPool, MaxTrustEvents),
          fb \in SeqsUpTo(TrustEventPool, MaxOtherEvents) :
           ghEvents = [u \in Users |-> IF u = "alice" THEN fa ELSE fb]
    /\ ghAssignee = [i \in Issues |-> "alice"]
    /\ posted = [p \in Pairs |-> 0]
    /\ patches = [i \in Issues |-> 0]
    /\ ghState = [i \in Issues |-> "open"]
    /\ writesSent = 0
    /\ inflight = <<>>
    /\ EmptyTables
    /\ NoAnalysis
    /\ steps = 0

NextTrust ==
    \E username \in Users, ok1 \in BOOLEAN, ok2 \in BOOLEAN :
        /\ get_contributor_activity(username, ok1, ok2)
        /\ UNCHANGED steps

SpecTrust == InitTrust /\ [][NextTrust]_vars

----------------------------------------------------------------------------
(* services/github_service.py, CookieLickingDetector: claiming patterns *)

MaxWords == 4
MaxComments == 1

InactiveThreshold == 7
AbandonmentThreshold == 14
DefaultTrustScore == 50

\* Text is a string; its characters are its substrings of length one.
CharAt(text, p) == SubSeq(text, p, p)

UpperCaseLetters == "ABCDEFGHIJKLMNOPQRSTUVWXYZ"
LowerCaseLetters == "abcdefghijklmnopqrstuvwxyz"
Digits == "0123456789"

LetterIndex(letters, c) ==
    IF \E k \in 1..Len(letters) : CharAt(letters, k) = c
    THEN CHOOSE k \in 1..Len(letters) : CharAt(letters, k) = c
    ELSE 0

\* str.lower(), character by character.
RECURSIVE lower(_)
lower(text) ==
    IF text = "" THEN ""
    ELSE LET k == LetterIndex(UpperCaseLetters, Head(text))
         IN  (IF k = 0 THEN Head(text) ELSE CharAt(LowerCaseLetters, k))
             \o lower(Tail(text))

\* The character classes \w, \s and . of the patterns.
InClass(cls, c) ==
    CASE cls = "w" -> \/ LetterIndex(LowerCaseLetters, c) # 0
                      \/ LetterIndex(UpperCaseLetters, c) # 0
                      \/ LetterIndex(Digits, c) # 0
                      \/ c = "_"
      [] cls = "s" -> c \in {" ", "\t", "\n", "\r", "\f"}
      [] cls = "." -> c # "\n"

\* Regular expressions, as far as the patterns use them.
Lit(text) == [op |-> "lit", text |-> text]
Alt(rs) == [op |-> "alt", rs |-> rs]
Cat(rs) == [op |-> "cat", rs |-> rs]
Opt(r) == [op |-> "opt", r |-> r]
Plus(cls) == [op |-> "plus", cls |-> cls]
Star(cls) == [op |-> "star", cls |-> cls]
WordBoundary == [op |-> "wb"]

\* \b at position p, between characters p and p + 1 of the text.
AtWordBoundary(text, p) ==
    LET before == p >= 1 /\ InClass("w", CharAt(text, p))
        after == p < Len(text) /\ InClass("w", CharAt(text, p + 1))
    IN  before # after

\* The positions at which a match of r can end when it starts at one of the
\* positions of from.
RECURSIVE MatchEnds(_, _, _)
RECURSIVE MatchEndsCat(_, _, _)
MatchEnds(r, text, from) ==
    CASE r.op = "lit" ->
             {p + Len(r.text) : p \in
                 {q \in from : /\ q + Len(r.text) <= Len(text)
                               /\ SubSeq(text, q + 1, q + Len(r.text)) = r.text}}
      [] r.op = "alt" ->
             UNION {MatchEnds(r.rs[k], text, from) : k \in 1..Len(r.rs)}
      [] r.op = "cat" -> MatchEndsCat(r.rs, text, from)
      [] r.op = "opt" -> from \cup MatchEnds(r.r, text, from)
      [] r.op = "plus" ->
             {q \in 1..Len(text) :
                 \E p \in from : /\ p < q
                                 /\ \A j \in (p + 1)..q :
                                        InClass(r.cls, CharAt(text, j))}
      [] r.op = "star" ->
             {q \in 0..Len(text) :
                 \E p \in from : /\ p <= q
                                 /\ \A j \in (p + 1)..q :
                                        InClass(r.cls, CharAt(text, j))}
      [] r.op = "wb" -> {p \in from : AtWordBoundary(text, p)}

MatchEndsCat(rs, text, from) ==
    IF rs = <<>> THEN from
    ELSE MatchEndsCat(Tail(rs), text, MatchEnds(Head(rs), text, from))

\* re.search: the pattern matches somewhere in the text.
re_search(r, text) == MatchEnds(r, text, 0..Len(text)) # {}

claiming_patterns ==
    << Cat(<<WordBoundary,
             Alt(<<Lit("i'll take this"), Lit("taking this"),
                   Lit("i can do this"), Lit("let me handle"),
                   Lit("working on this")>>),
             WordBoundary>>),
       Cat(<<WordBoundary,
             Alt(<<Cat(<<Lit("assignin"), Opt(Lit("g")), Lit(" "),
                         Opt(Lit("this ")), Lit("to myself")>>),
                   Cat(<<Lit("self"), Alt(<<Lit("-"), Lit(" ")>>),
                         Lit("assign")>>)>>),
             WordBoundary>>),
       Cat(<<WordBoundary,
             Alt(<<Lit("i'm on it"), Lit("got it"), Lit("i'll fix")>>),
             WordBoundary>>),
       Cat(<<WordBoundary,
             Alt(<<Lit("claiming"), Lit("claim")>>),
             WordBoundary>>),
       Cat(<<Lit("@"), Plus("w"), Plus("s"),
             Alt(<<Lit("can i"), Lit("may i"), Lit("could i")>>),
             Star("."),
             Alt(<<Lit("take"), Lit("work on"), Lit("handle")>>)>>),
       Cat(<<WordBoundary,
             Alt(<<Lit("i will"), Lit("i'll")>>),
             Plus("s"),
             Alt(<<Lit("work on"), Lit("fix"), Lit("handle"),
                   Lit("take care of")>>),
             WordBoundary>>) >>

\* A JSON value of a comment's body: a string, or null.
JsonNull == [json |-> "null"]
JsonString(text) == [json |-> "string", text |-> text]

\* A faulty detector: it tests the text as it was written, without lowering
\* it and without the IGNORECASE flag.
detect_claiming_patterns_case_sensitive(comment_body) ==
    IF comment_body.json # "string"
    THEN [raised |-> TRUE, found_patterns |-> <<>>]
    ELSE [raised |-> FALSE,
          found_patterns |->
              SelectSeq([k \in 1..Len(claiming_patterns) |-> k],
                        LAMBDA k : re_search(claiming_patterns[k],
                                             comment_body.text))]

\* detect_claiming_patterns: the patterns (by position in claiming_patterns)
\* found in the lowered text.  comment_body.lower() raises AttributeError on
\* a body that is not a string.  The patterns hold no upper-case letter, so
\* re.IGNORECASE adds nothing once the text is lowered.
detect_claiming_patterns(comment_body) ==
    IF comment_body.json # "string"
    THEN [raised |-> TRUE, found_patterns |-> <<>>]
    ELSE LET comment_lower == lower(comment_body.text)
         IN  [raised |-> FALSE,
              found_patterns |->
                  SelectSeq([k \in 1..Len(claiming_patterns) |-> k],
                            LAMBDA k : re_search(claiming_patterns[k],
                                                 comment_lower))]

\* A comment of an issue, as the tracker lists it.
Comment(login, body, created_at) ==
    [user |-> login, body |-> body, created_at |-> created_at]

\* max(assignee_comments, key=created_at).created_at
LastCreatedAt(comments) ==
    CHOOSE t \in {comments[k].created_at : k \in 1..Len(comments)} :
        \A k \in 1..Len(comments) : comments[k].created_at <= t

\* analyze_issue_for_cookie_licking, on the comments that get_issue_comments
\* fetched.  trust_data is the answer of the detector's own
\* calculate_trust_score(assignee), which never raises.  An exception in the
\* loop over the comments is caught by the method's except.
analyze_issue_for_cookie_licking(comments, assignee, trust_data, t) ==
    IF comments = <<>>
    THEN [success |-> FALSE, error |-> "No comments found for issue"]
    ELSE LET assignee_comments ==
                 SelectSeq(comments,
                           LAMBDA c : lower(c.user) = lower(assignee))
             raised ==
                 \E k \in 1..Len(assignee_comments) :
                     detect_claiming_patterns(assignee_comments[k].body).raised
             claiming_comments ==
                 SelectSeq(assignee_comments,
                           LAMBDA c : detect_claiming_patterns(c.body)
                                          .found_patterns # <<>>)
             days_inactive ==
                 IF assignee_comments = <<>> THEN 0
                 ELSE t - LastCreatedAt(assignee_comments)
             risk_level ==
                 IF claiming_comments # <<>>
                    /\ days_inactive > AbandonmentThreshold THEN "high"
                 ELSE IF claiming_comments # <<>>
                         /\ days_inactive > InactiveThreshold THEN "medium"
                 ELSE "low"
         IN  IF raised
             THEN [success |-> FALSE, error |-> "AttributeError"]
             ELSE [success |-> TRUE,
                   risk_level |-> risk_level,
                   patterns_detected |->
                       [k \in 1..Len(claiming_comments) |->
                           detect_claiming_patterns(claiming_comments[k].body)
                               .found_patterns],
                   days_since_assignment |-> days_inactive,
                   assignee_trust_score |->
                       IF trust_data.success THEN trust_data.trust_score
                       ELSE DefaultTrustScore,
                   recommendation |->
                       IF risk_level = "high"
                       THEN "Consider unassigning and sending reminder"
                       ELSE IF risk_level = "medium"
                       THEN "Send gentle reminder"
                       ELSE "Monitor",
                   claiming_comments_count |-> Len(claiming_comments),
                   total_comments_by_assignee |-> Len(assignee_comments)]

\* The detector is called on the comment body that is waiting.
DetectClaim ==
    /\ cookieAnalysis.op = "detect"
    /\ cookieAnalysis' =
           [ran |-> TRUE, op |-> "detect", body |-> cookieAnalysis.body,
            result |-> detect_claiming_patterns(cookieAnalysis.body)]
    /\ UNCHANGED <<now, ghEvents, ghAssignee, ghState, writesSent, inflight,
                   posted, patches, issues,
                   detections, ghUsers, activityLog, response, aiScore, steps>>

\* The issue whose comments are waiting is analysed.
AnalyzeIssue ==
    /\ cookieAnalysis.op = "analyze"
    /\ cookieAnalysis' =
           [ran |-> TRUE, op |-> "analyze",
            comments |-> cookieAnalysis.comments,
            assignee |-> cookieAnalysis.assignee,
            trust_data |-> cookieAnalysis.trust_data,
            result |-> analyze_issue_for_cookie_licking(
                           cookieAnalysis.comments, cookieAnalysis.assignee,
                           cookieAnalysis.trust_data, now)]
    /\ UNCHANGED <<now, ghEvents, ghAssignee, ghState, writesSent, inflight,
                   posted, patches, issues,
                   detections, ghUsers, activityLog, response, aiScore, steps>>

\* The words comment bodies are made of, and the sentences of at most n of
\* them.
Words == {"I'll", "take", "this", "one!", "Claim", "nice"}

RECURSIVE SentencesOf(_, _)
SentencesOf(words, n) ==
    IF n = 0 THEN {""}
    ELSE LET shorter == SentencesOf(words, n - 1)
         IN  shorter \cup words
             \cup {s \o " " \o w : s \in shorter \ {""}, w \in words}

Bodies == {JsonNull} \cup {JsonString(s) : s \in SentencesOf(Words, MaxWords)}

\* The comments of the analysed issues: by either user, with a claim, with
\* none, empty or null, written today, or longer ago than either threshold.
IssueBodies ==
    {JsonNull, JsonString(""), JsonString("I'll take this one!"),
     JsonString("nice one!")}

CommentTimes ==
    {0, 0 - (InactiveThreshold + 1), 0 - (AbandonmentThreshold + 1)}

IssueComments ==
    {Comment(login, body, t) :
        login \in Users, body \in IssueBodies, t \in CommentTimes}

TrustAnswers ==
    {[success |-> FALSE], [success |-> TRUE, trust_score |-> 80]}

\* What the detector may be asked: a comment body, or an issue's comments.
DetectorInputs ==
    {[ran |-> FALSE, op |-> "detect", body |-> body] : body \in Bodies}
    \cup {[ran |-> FALSE, op |-> "analyze", comments |-> comments,
           assignee |-> assignee, trust_data |-> trust_data] :
             comments \in SeqsUpTo(IssueComments, MaxComments),
             assignee \in Users, trust_data \in TrustAnswers}

InitDetector ==
    /\ now = 0
    /\ ghEvents = [u \in Users |-> <<>>]
    /\ ghAssignee = [i \in Issues |-> "alice"]
    /\ posted = [p \in Pairs |-> 0]
    /\ patches = [i \in Issues |-> 0]
    /\ ghState = [i \in Issues |-> "open"]
    /\ writesSent = 0
    /\ inflight = <<>>
    /\ EmptyTables
    /\ cookieAnalysis \in DetectorInputs
    /\ aiScore = [ran |-> FALSE]
    /\ steps = 0

NextDetector ==
    \/ DetectClaim
    \/ AnalyzeIssue

SpecDetector == InitDetector /\ [][NextDetector]_vars

----------------------------------------------------------------------------
(* gemini_service.py, GeminiTrustAnalyzer: the quality analyses and the      *)
(* blended trust score.  Sub-scores are whole numbers; the blended score is  *)
(* counted in hundredths, the weights being hundredths of the total.         *)

DefaultSubScore == 5
DefaultConfidence == 0
NoCommentsScore == 0
BaseWeight == 40
CommentQualityWeight == 25
ConsistencyWeight == 15
AuthenticityWeight == 15
ClaimRiskWeight == 5
RiskCeiling == 10
AiScale == 6
EnhancedCap == 100

\* A dict is a set of <<key, value>> pairs with one pair per key.
Get(dict, key, default) ==
    IF \E kv \in dict : kv[1] = key
    THEN (CHOOSE kv \in dict : kv[1] = key)[2]
    ELSE default

\* What model.generate_content does: it raises, or it returns text.  The
\* text holds a "{" or not; the part from the first "{" to the last "}" is
\* valid JSON, the object given, or not.
HookRaises == [kind |-> "raises", has_brace |-> FALSE, valid_json |-> FALSE,
               object |-> {}]

HookText(has_brace, valid_json, object) ==
    [kind |-> "text", has_brace |-> has_brace, valid_json |-> valid_json,
     object |-> object]

get_default_comment_analysis ==
    {<<"overall_score", DefaultSubScore>>,
     <<"helpfulness_avg", DefaultSubScore>>,
     <<"technical_accuracy_avg", DefaultSubScore>>,
     <<"communication_clarity_avg", DefaultSubScore>>}

get_default_behavioral_analysis ==
    {<<"consistency_score", DefaultSubScore>>,
     <<"engagement_authenticity", DefaultSubScore>>,
     <<"collaboration_quality", DefaultSubScore>>}

get_default_cookie_licking_analysis ==
    {<<"cookie_licking_risk", DefaultSubScore>>,
     <<"confidence_level", DefaultConfidence>>}

\* json_end = rfind('}') + 1 is never -1, so only a missing "{" skips
\* json.loads; json.loads raises on anything that is not JSON and the bare
\* except passes.
parse_comment_analysis_response(reply) ==
    IF reply.has_brace /\ reply.valid_json THEN reply.object
    ELSE get_default_comment_analysis

parse_behavioral_analysis_response(reply) ==
    IF reply.has_brace /\ reply.valid_json THEN reply.object
    ELSE get_default_behavioral_analysis

parse_cookie_licking_response(reply) ==
    IF reply.has_brace /\ reply.valid_json THEN reply.object
    ELSE get_default_cookie_licking_analysis

\* Without comments the hook is not asked.
analyze_comments_quality(comments, hook) ==
    IF comments = <<>>
    THEN {<<"overall_score", NoCommentsScore>>,
          <<"helpfulness_avg", NoCommentsScore>>,
          <<"technical_accuracy_avg", NoCommentsScore>>,
          <<"communication_clarity_avg", NoCommentsScore>>}
    ELSE IF hook.kind = "raises" THEN get_default_comment_analysis
    ELSE parse_comment_analysis_response(hook)

\* A faulty fallback: a raising hook gives the scores of "nothing to
\* analyse" instead of the defaults.
analyze_behavioral_patterns_zero_on_error(hook) ==
    IF hook.kind = "raises"
    THEN {<<"consistency_score", NoCommentsScore>>,
          <<"engagement_authenticity", NoCommentsScore>>,
          <<"collaboration_quality", NoCommentsScore>>}
    ELSE parse_behavioral_analysis_response(hook)

analyze_behavioral_patterns(hook) ==
    IF hook.kind = "raises" THEN get_default_behavioral_analysis
    ELSE parse_behavioral_analysis_response(hook)

detect_cookie_licking_patterns(hook) ==
    IF hook.kind = "raises" THEN get_default_cookie_licking_analysis
    ELSE parse_cookie_licking_response(hook)

\* calculate_enhanced_trust_score, in hundredths.
calculate_enhanced_trust_score(base_score, ai_analyses) ==
    LET base_weighted == base_score * BaseWeight
        comment_quality ==
            Get(Get(ai_analyses, "comment_quality", {}),
                "overall_score", DefaultSubScore)
        behavioral_score ==
            Get(Get(ai_analyses, "behavioral", {}),
                "consistency_score", DefaultSubScore)
        engagement_auth ==
            Get(Get(ai_analyses, "behavioral", {}),
                "engagement_authenticity", DefaultSubScore)
        cookie_licking_risk ==
            Get(Get(ai_analyses, "cookie_licking", {}),
                "cookie_licking_risk", DefaultSubScore)
        ai_weighted ==
            (comment_quality * CommentQualityWeight
             + behavioral_score * ConsistencyWeight
             + engagement_auth * AuthenticityWeight
             + (RiskCeiling - cookie_licking_risk) * ClaimRiskWeight) * AiScale
        final_score == base_weighted + ai_weighted
    IN  Min(final_score, EnhancedCap * 100)

\* The three analyses are run on the waiting inputs and blended with the
\* base score.
EnhanceScore ==
    /\ ~aiScore.ran
    /\ LET ai_analyses ==
               {<<"comment_quality",
                  analyze_comments_quality(aiScore.comments,
                                           aiScore.comment_hook)>>,
                <<"behavioral",
                  analyze_behavioral_patterns(aiScore.behavioral_hook)>>,
                <<"cookie_licking",
                  detect_cookie_licking_patterns(aiScore.cookie_hook)>>}
       IN  aiScore' =
               [ran |-> TRUE,
                base_score |-> aiScore.base_score,
                comments |-> aiScore.comments,
                comment_hook |-> aiScore.comment_hook,
                behavioral_hook |-> aiScore.behavioral_hook,
                cookie_hook |-> aiScore.cookie_hook,
                ai_analyses |-> ai_analyses,
                final_score |->
                    calculate_enhanced_trust_score(aiScore.base_score,
                                                   ai_analyses)]
    /\ UNCHANGED <<now, ghEvents, ghAssignee, ghState, writesSent, inflight,
                   posted, patches, issues,
                   detections, ghUsers, activityLog, response, cookieAnalysis,
                   steps>>

\* The sub-scores a reply may hold: in the range 0-10, below it, above it.
SubScores == {0 - 20, 0, 5, 10, 30}

\* The base scores: negative, zero, ordinary, and far above the cap.
BaseScores == {0 - 50, 0, 50, 300}

\* Replies that are no use: an exception, text without "{", text whose
\* braces hold no JSON.
FailedReplies ==
    {HookRaises, HookText(FALSE, FALSE, {}), HookText(TRUE, FALSE, {})}

CommentReplies ==
    FailedReplies \cup {HookText(TRUE, TRUE, {})}
    \cup {HookText(TRUE, TRUE, {<<"overall_score", v>>}) : v \in SubScores}

BehavioralReplies ==
    FailedReplies \cup {HookText(TRUE, TRUE, {})}
    \cup {HookText(TRUE, TRUE, {<<"consistency_score", v>>,
                                <<"engagement_authenticity", w>>}) :
             v \in SubScores, w \in SubScores}

CookieReplies ==
    FailedReplies \cup {HookText(TRUE, TRUE, {})}
    \cup {HookText(TRUE, TRUE, {<<"cookie_licking_risk", v>>}) :
             v \in SubScores}

CommentLists == {<<>>, <<JsonString("nice one!")>>}

InitEnhanced ==
    /\ now = 0
    /\ ghEvents = [u \in Users |-> <<>>]
    /\ ghAssignee = [i \in Issues |-> "alice"]
    /\ posted = [p \in Pairs |-> 0]
    /\ patches = [i \in Issues |-> 0]
    /\ ghState = [i \in Issues |-> "open"]
    /\ writesSent = 0
    /\ inflight = <<>>
    /\ EmptyTables
    /\ cookieAnalysis = [ran |-> FALSE]
    /\ \E base_score \in BaseScores, comments \in CommentLists,
          c \in CommentReplies, b \in BehavioralReplies, k \in CookieReplies :
           aiScore = [ran |-> FALSE, base_score |-> base_score,
                      comments |-> comments, comment_hook |-> c,
                      behavioral_hook |-> b, cookie_hook |-> k]
    /\ steps = 0

NextEnhanced == EnhanceScore

SpecEnhanced == InitEnhanced /\ [][NextEnhanced]_vars

----------------------------------------------------------------------------
(* The tag ladder: feeds long enough to reach every tag *)

MaxLadderEvents == 4

LadderKinds == {"PushEvent", "IssueCommentEvent", "WatchEvent"}

\* Feeds of at most n well-formed events, old or of today, numbered from
\* first_id on.
LadderFeeds(n, first_id) ==
    UNION {{[k \in 1..m |-> Event(first_id + k - 1, kinds[k], times[k], TRUE)] :
               kinds \in [1..m -> LadderKinds],
               times \in [1..m -> {OldTime, 0}]} : m \in 0..n}

\* The second user is quiet, or has pushed twice today.
OtherLadderFeeds ==
    {<<OldPush(MaxLadderEvents + 1)>>,
     <<Event(MaxLadderEvents + 1, "PushEvent", 0, TRUE),
       Event(MaxLadderEvents + 2, "PushEvent", 0, TRUE)>>}

InitLadder ==
    /\ now = 0
    /\ \E fa \in LadderFeeds(MaxLadderEvents, 1), fb \in OtherLadderFeeds :
           ghEvents = [u \in Users |-> IF u = "alice" THEN fa ELSE fb]
    /\ ghAssignee = [i \in Issues |-> "alice"]
    /\ posted = [p \in Pairs |-> 0]
    /\ patches = [i \in Issues |-> 0]
    /\ ghState = [i \in Issues |-> "open"]
    /\ writesSent = 0
    /\ inflight = <<>>
    /\ EmptyTables
    /\ NoAnalysis
    /\ steps = 0

NextLadder ==
    \E username \in Users, ok1 \in BOOLEAN, ok2 \in BOOLEAN :
        /\ get_contributor_activity(username, ok1, ok2)
        /\ UNCHANGED steps

SpecLadder == InitLadder /\ [][NextLadder]_vars

----------------------------------------------------------------------------
(* Claims *)

\* C1: whatever the event list, the trust score that get_contributor_activity
\* persists on the GitHubUser (and answers with) lies in [0, ScoreUpperBound];
\* it is never negative.
C1_TrustScoreInRange ==
    /\ \A u \in Users :
           ghUsers[u].stored =>
               /\ ghUsers[u].trust_score >= 0
               /\ ghUsers[u].trust_score <= ScoreUpperBound
    /\ (response.op = "contributor" /\ response.status = 200) =>
           /\ response.trust_score >= 0
           /\ response.trust_score <= ScoreUpperBound

\* A step that handles a release request for issue i.
ReleaseStep(i) ==
    \E token \in BOOLEAN, net \in TrackerOutcomes :
        unassign_inactive_user(i, token, net)

\* A step that handles an analyze request whose fetches all succeed.
CleanAnalyzeStep == analyze_inactive_contributors(TRUE, Users, {})

\* C2: a send_reminder request on a Detection whose reminder is already
\* recorded (reminder_sent = true) posts no further comment, so that at most
\* one reminder comment reaches the tracker for the Detection.
C2_NoSecondReminder ==
    [][\A p \in Pairs :
          (/\ HasDetection(detections, p[1], p[2])
           /\ DetectionOf(detections, p[1], p[2]).reminder_sent)
          => posted'[p] = posted[p]]_vars

\* C3: a release request on an issue that is already unassigned on the
\* tracker sends no PATCH, and the tracker never receives more than one
\* assignee-clearing write for an issue.
C3_ReleaseIdempotent ==
    /\ [][\A i \in Issues :
             (ghAssignee[i] = None /\ ReleaseStep(i))
             => patches'[i] = patches[i]]_vars
    /\ [](\A i \in Issues : patches[i] <= 1)

\* C4: no step moves a Detection backward: reminder_sent and unassigned are
\* never reset, and a Detection that is unassigned is not reminded (again):
\* its reminder_sent and reminder_sent_at stay as they are.
C4_NeverBackward ==
    [][\A k \in 1..Len(detections) :
          /\ k <= Len(detections')
          /\ detections[k].reminder_sent => detections'[k].reminder_sent
          /\ detections[k].unassigned => detections'[k].unassigned
          /\ detections[k].unassigned =>
                 /\ detections'[k].reminder_sent = detections[k].reminder_sent
                 /\ detections'[k].reminder_sent_at =
                        detections[k].reminder_sent_at]_vars

\* C5: a Detection is unassigned only after its reminder was sent and the
\* grace period has passed since: unassigned implies reminder_sent, and
\* unassigned_at is at least GraceDays after reminder_sent_at.
C5_UnassignedOnlyAfterReminder ==
    \A k \in 1..Len(detections) :
        detections[k].unassigned =>
            /\ detections[k].reminder_sent
            /\ detections[k].unassigned_at >=
                   detections[k].reminder_sent_at + GraceDays

\* The assignee of Detection d produced an event after the reminder and
\* before the grace period ended.
RespondedInGrace(d) ==
    /\ d.reminder_sent
    /\ \E k \in 1..Len(ghEvents[d.assignee_username]) :
           LET e == ghEvents[d.assignee_username][k]
           IN  /\ e.ts_ok
               /\ e.created_at > d.reminder_sent_at
               /\ e.created_at < d.reminder_sent_at + GraceDays

\* C6: once the assignee of a reminded Detection has responded within the
\* grace period, no unassign call reaches the tracker for the Detection's
\* issue and the Detection is not marked unassigned.
C6_NoUnassignAfterResponse ==
    [][\A k \in 1..Len(detections) :
          (/\ RespondedInGrace(detections[k])
           /\ ~detections[k].unassigned
           /\ ghAssignee[detections[k].issue] =
                  detections[k].assignee_username)
          => /\ patches'[detections[k].issue] = patches[detections[k].issue]
             /\ k <= Len(detections')
             /\ ~detections'[k].unassigned]_vars

\* A send_reminder or release request whose tracker call fails (no access
\* token, or the request itself fails).
FailedWriteStep ==
    \/ \E i \in Issues, u \in Users, token \in BOOLEAN, net \in TrackerOutcomes :
           ~TrackerWriteSucceeds(token, net) /\ send_reminder(i, u, token, net)
    \/ \E i \in Issues, token \in BOOLEAN, net \in TrackerOutcomes :
           /\ ~TrackerWriteSucceeds(token, net)
           /\ unassign_inactive_user(i, token, net)

\* C7: when the tracker call of send_reminder or of release fails, the
\* request answers 500 and every Detection and every stored issue is exactly
\* as it was before the request.
C7_FailedWriteChangesNothing ==
    [][FailedWriteStep =>
          /\ detections' = detections
          /\ issues' = issues
          /\ response'.status = 500]_vars

\* A release has just failed on a stored, still assigned issue whose
\* Detection was reminded and is not unassigned.
C7_Witness ==
    /\ response = Responded("release", 500)
    /\ Len(detections) > 0
    /\ detections[1].reminder_sent
    /\ ~detections[1].unassigned
    /\ issues[detections[1].issue].stored
    /\ issues[detections[1].issue].assignee = detections[1].assignee_username

\* The assignee of issue i on the tracker is inactive: assigned, and none of
\* the first RecentLimit events of the feed lies within the recency window.
\* An empty feed has no recent event.
InactiveAssignee(i) ==
    IF ghAssignee[i] = None THEN FALSE
    ELSE ~HasRecentActivity(Take(ghEvents[ghAssignee[i]], RecentLimit), now)

\* C8: a pass over a stored issue whose assignee has an empty event list
\* computes a score for the assignee (not an error) and produces a Detection
\* for the issue.
C8_EmptyFeedIsStale ==
    [][CleanAnalyzeStep =>
          \A i \in Issues :
              (/\ ghAssignee[i] # None
               /\ issues[i].stored
               /\ ghEvents[IF ghAssignee[i] = None THEN "alice"
                           ELSE ghAssignee[i]] = <<>>)
              => /\ calculate_trust_score(<<>>, now).success
                 /\ HasDetection(detections', i, ghAssignee[i])]_vars

\* C9: a pass whose fetches succeed creates a Detection for a stored issue
\* exactly when the issue's assignee is inactive: afterwards every stored
\* issue with an inactive assignee has a Detection, a new one being in the
\* initial state, and the pass adds no Detection for any other issue.
C9_DetectionIffInactive ==
    [][CleanAnalyzeStep =>
          \A i \in Issues :
              issues[i].stored =>
                  IF InactiveAssignee(i)
                  THEN /\ HasDetection(detections', i, ghAssignee[i])
                       /\ ~HasDetection(detections, i, ghAssignee[i]) =>
                              /\ ~DetectionOf(detections', i,
                                              ghAssignee[i]).reminder_sent
                              /\ ~DetectionOf(detections', i,
                                              ghAssignee[i]).unassigned
                  ELSE \A k \in 1..Len(detections') :
                           detections'[k].issue = i => k <= Len(detections)]_vars

\* A step that handles an analyze request, whatever its fetches do.
AnalyzeStep ==
    \E issuesOk \in BOOLEAN, evOk \in SUBSET Users,
       malformed \in SUBSET Issues :
        analyze_inactive_contributors(issuesOk, evOk, malformed)

\* C10: there is never more than one Detection per (issue, assignee); no
\* step removes a Detection or changes its issue or assignee; and an analyze
\* pass leaves the Detection of every assignee other than the issue's present
\* one as it is, the present assignee getting a row of their own that starts
\* in the initial state.
C10_OneDetectionPerPair ==
    /\ [](\A p \in Pairs :
              Cardinality(DetectionRows(detections, p[1], p[2])) <= 1)
    /\ [][\A k \in 1..Len(detections) :
              /\ k <= Len(detections')
              /\ detections'[k].issue = detections[k].issue
              /\ detections'[k].assignee_username =
                     detections[k].assignee_username]_vars
    /\ [][AnalyzeStep =>
              \A k \in 1..Len(detections) :
                  detections[k].assignee_username #
                      ghAssignee[detections[k].issue]
                  => detections'[k] = detections[k]]_vars
    /\ [][CleanAnalyzeStep =>
              \A i \in Issues :
                  (/\ issues[i].stored
                   /\ InactiveAssignee(i)
                   /\ ghEvents[ghAssignee[i]] # <<>>
                   /\ ~HasDetection(detections, i, ghAssignee[i]))
                  => /\ HasDetection(detections', i, ghAssignee[i])
                     /\ DetectionOf(detections', i, ghAssignee[i]) =
                            NewDetection(i, ghAssignee[i], DaysInactive,
                                calculate_trust_score(
                                    ghEvents[ghAssignee[i]], now).trust_score)
             ]_vars

\* The issue has two Detections: the first assignee's, already reminded, and
\* a second one, in the initial state, of the assignee who took the issue
\* over.
C10_Witness ==
    /\ Len(detections) = 2
    /\ detections[1].issue = detections[2].issue
    /\ detections[1].assignee_username # detections[2].assignee_username
    /\ detections[1].reminder_sent
    /\ ~detections[2].reminder_sent
    /\ response.op = "analyze"

\* The event list without its repeated events: the first event of every id.
RECURSIVE WithoutDuplicates(_, _)
WithoutDuplicates(events, seen) ==
    IF events = <<>> THEN <<>>
    ELSE IF Head(events).id \in seen
    THEN WithoutDuplicates(Tail(events), seen)
    ELSE <<Head(events)>>
         \o WithoutDuplicates(Tail(events), seen \cup {Head(events).id})

\* A contributor request for user u whose two fetches succeed.
ContributorStep(u) == get_contributor_activity(u, TRUE, TRUE)

\* C11: an event id counts at most once: the score of a contributor request
\* is the score of the feed with its repeated event ids removed, and running
\* the request again on the same events would leave the stored log and the
\* stored score as they are.
C11_EventCountsOnce ==
    [][\A u \in Users :
          (ContributorStep(u) /\ response'.status = 200) =>
              /\ response'.trust_score =
                     calculate_trust_score(
                         WithoutDuplicates(ghEvents[u], {}), now).trust_score
              /\ StoreLogs(activityLog', Take(ghEvents'[u], RecentLimit),
                           u).log = activityLog'
              /\ calculate_trust_score(ghEvents'[u], now').trust_score =
                     ghUsers'[u].trust_score]_vars

\* A send_reminder or release request, sent with an access token, that the
\* tracker rejects with 404 because the issue is gone.
RejectedWriteStep ==
    \/ \E i \in Issues, u \in Users : send_reminder(i, u, TRUE, "not_found")
    \/ \E i \in Issues : unassign_inactive_user(i, TRUE, "not_found")

\* C12: a reminder or a release that the tracker rejects with 404 is not
\* an error: the request does not answer with a failure status.
C12_RejectionIsResolved ==
    [][RejectedWriteStep => response'.status < 400]_vars

\* str.upper(), character by character.
RECURSIVE upper(_)
upper(text) ==
    IF text = "" THEN ""
    ELSE LET k == LetterIndex(LowerCaseLetters, Head(text))
         IN  (IF k = 0 THEN Head(text) ELSE CharAt(UpperCaseLetters, k))
             \o upper(Tail(text))

\* Words that make no claim phrase, however they are put together.
NeutralWords == {"take", "this", "one!", "nice"}

NeutralTexts == SentencesOf(NeutralWords, MaxWords)

\* C13: detect_claiming_patterns returns no pattern for the empty string and
\* for text without a claim phrase, at least one pattern for
\* "I'll take this one!", and the same patterns for a text written in upper
\* case, in lower case or as it is.
C13_ClaimPatterns ==
    (cookieAnalysis.ran /\ cookieAnalysis.op = "detect"
        /\ cookieAnalysis.body.json = "string") =>
        LET text == cookieAnalysis.body.text
            found == cookieAnalysis.result.found_patterns
        IN  /\ ~cookieAnalysis.result.raised
            /\ text = "" => found = <<>>
            /\ text \in NeutralTexts => found = <<>>
            /\ text = "I'll take this one!" => found # <<>>
            /\ detect_claiming_patterns(JsonString(upper(text)))
                   .found_patterns = found
            /\ detect_claiming_patterns(JsonString(lower(text)))
                   .found_patterns = found

\* The detector has run on "I'll take this one!" and found a pattern.
C13_Witness ==
    /\ cookieAnalysis.ran
    /\ cookieAnalysis.op = "detect"
    /\ cookieAnalysis.body = JsonString("I'll take this one!")
    /\ cookieAnalysis.result.found_patterns # <<>>

\* C14: the detector raises on no input and finds nothing in a body that is
\* not text, and the analysis of an issue that has comments succeeds, a
\* comment with a null body included.
C14_DetectorNeverRaises ==
    cookieAnalysis.ran =>
        IF cookieAnalysis.op = "detect"
        THEN /\ ~cookieAnalysis.result.raised
             /\ cookieAnalysis.body.json # "string" =>
                    cookieAnalysis.result.found_patterns = <<>>
        ELSE cookieAnalysis.comments # <<>> => cookieAnalysis.result.success

\* The hook was no use: it raised, or its text could not be parsed.
HookFailed(hook) ==
    hook.kind = "raises" \/ ~(hook.has_brace /\ hook.valid_json)

AllHooksFailed ==
    /\ HookFailed(aiScore.comment_hook)
    /\ HookFailed(aiScore.behavioral_hook)
    /\ HookFailed(aiScore.cookie_hook)

\* The analyses whose four sub-scores are comment_quality, 5, 5 and 5.
AnalysesWith(comment_quality) ==
    {<<"comment_quality", {<<"overall_score", comment_quality>>}>>,
     <<"behavioral", {<<"consistency_score", 5>>,
                      <<"engagement_authenticity", 5>>}>>,
     <<"cookie_licking", {<<"cookie_licking_risk", 5>>}>>}

\* The four sub-scores of the analyses that were blended.
SubScoresOf(ai_analyses) ==
    <<Get(Get(ai_analyses, "comment_quality", {}), "overall_score", 0 - 1),
      Get(Get(ai_analyses, "behavioral", {}), "consistency_score", 0 - 1),
      Get(Get(ai_analyses, "behavioral", {}), "engagement_authenticity",
          0 - 1),
      Get(Get(ai_analyses, "cookie_licking", {}), "cookie_licking_risk",
          0 - 1)>>

\* C15: when the hook raises or returns text that cannot be parsed, every
\* analysis yields sub-scores of 5 and the blended score is the one obtained
\* with all four sub-scores set to 5.
C15_HookFailureIsNeutral ==
    (aiScore.ran /\ AllHooksFailed) =>
        /\ SubScoresOf(aiScore.ai_analyses) = <<5, 5, 5, 5>>
        /\ aiScore.final_score =
               calculate_enhanced_trust_score(aiScore.base_score,
                                              AnalysesWith(5))

\* C15 as amended: when the hook raises or returns text that cannot be
\* parsed, the behavioural, authenticity and claim-risk sub-scores are 5, and
\* so is the comment quality of a list that has comments; the hook is not
\* asked about an empty list, whose comment quality is 0.  The blended score
\* is the one obtained with these four sub-scores.
C15_HookFailureIsNeutralGivenComments ==
    (aiScore.ran /\ AllHooksFailed) =>
        LET comment_quality == IF aiScore.comments = <<>> THEN 0 ELSE 5
        IN  /\ SubScoresOf(aiScore.ai_analyses) = <<comment_quality, 5, 5, 5>>
            /\ aiScore.final_score =
                   calculate_enhanced_trust_score(
                       aiScore.base_score, AnalysesWith(comment_quality))

\* All three hooks failed, each in its own way, on an issue with comments,
\* and the blended score is 40% of the base score plus 18.
C15_Witness ==
    /\ aiScore.ran
    /\ aiScore.comments # <<>>
    /\ aiScore.comment_hook = HookRaises
    /\ aiScore.behavioral_hook = HookText(FALSE, FALSE, {})
    /\ aiScore.cookie_hook = HookText(TRUE, FALSE, {})
    /\ aiScore.base_score = 50
    /\ aiScore.final_score = 3800

\* C16: the blended score lies in [0, 100] (here in hundredths) whatever the
\* base score and the sub-scores are.
C16_EnhancedScoreInRange ==
    aiScore.ran =>
        /\ aiScore.final_score >= 0
        /\ aiScore.final_score <= 100 * 100

\* The ladder as the claim states it.
LadderTag(score) ==
    IF score > 10 THEN "Reliable Contributor"
    ELSE IF score >= 5 THEN "Active Contributor"
    ELSE "Inactive / Needs Follow-up"

\* The tags from worst to best.
TagRank(tag) ==
    CASE tag = "Inactive / Needs Follow-up" -> 0
      [] tag = "Active Contributor" -> 1
      [] tag = "Reliable Contributor" -> 2

\* C17: the tag stored and answered with a score is the ladder's tag of that
\* score (above 10 reliable, 5 to 10 active, lower inactive), one of the
\* three tags, and a user with a higher score never has a worse tag.
C17_TagLadder ==
    /\ \A u \in Users :
           ghUsers[u].stored =>
               /\ ghUsers[u].tag = LadderTag(ghUsers[u].trust_score)
               /\ \A v \in Users :
                      (ghUsers[v].stored
                          /\ ghUsers[u].trust_score <= ghUsers[v].trust_score)
                      => TagRank(ghUsers[u].tag) <= TagRank(ghUsers[v].tag)
    /\ (response.op = "contributor" /\ response.status = 200) =>
           response.tag = LadderTag(response.trust_score)

\* One user is stored as reliable with a score above 10, the other as active.
C17_Witness ==
    /\ ghUsers["alice"].stored
    /\ ghUsers["alice"].trust_score > 10
    /\ ghUsers["alice"].tag = "Reliable Contributor"
    /\ ghUsers["bob"].stored
    /\ ghUsers["bob"].tag = "Active Contributor"

\* The events of a feed whose created_at is a timestamp.
WellFormed(events) == SelectSeq(events, LAMBDA e : e.ts_ok)

\* C18: an event whose created_at is missing or malformed is skipped and is
\* not fatal: a contributor request on a feed that holds such an event
\* answers 200, and its has_recent_activity is the one the well-formed events
\* of the feed decide.
C18_MalformedTimestampSkipped ==
    [][\A u \in Users :
          (/\ ContributorStep(u)
           /\ \E k \in 1..Len(ghEvents[u]) : ~ghEvents[u][k].ts_ok)
          => /\ response'.status = 200
             /\ response'.has_recent_activity =
                    HasRecentActivity(
                        WellFormed(Take(ghEvents[u], RecentLimit)), now)
             /\ ghUsers'[u].stored]_vars

\* C19: a Detection is marked reminded only by a step in which the tracker
\* accepted the reminder comment, and marked unassigned (as the stored issue
\* is given no assignee) only by a step in which the tracker accepted the
\* clearing of the assignees; so no Detection is reminded without a comment
\* posted for its issue and assignee, or unassigned without an accepted
\* PATCH of its issue.
C19_WriteAfterConfirmation ==
    /\ [](\A k \in 1..Len(detections) :
              LET d == detections[k]
              IN  /\ (d.reminder_sent \/ d.reminder_sent_at # NullTime) =>
                         posted[<<d.issue, d.assignee_username>>] >= 1
                  /\ (d.unassigned \/ d.unassigned_at # NullTime) =>
                         patches[d.issue] >= 1)
    /\ [][\A k \in 1..Len(detections) :
              LET d == detections[k]
                  e == detections'[k]
                  p == <<d.issue, d.assignee_username>>
              IN  /\ k <= Len(detections')
                  /\ (e.reminder_sent # d.reminder_sent
                         \/ e.reminder_sent_at # d.reminder_sent_at)
                     => posted'[p] = posted[p] + 1
                  /\ (e.unassigned # d.unassigned
                         \/ e.unassigned_at # d.unassigned_at)
                     => /\ patches'[d.issue] = patches[d.issue] + 1
                        /\ ghAssignee'[d.issue] = None]_vars
    /\ [][\A i \in Issues :
              (ReleaseStep(i) /\ issues'[i] # issues[i])
              => /\ patches'[i] = patches[i] + 1
                 /\ ghAssignee'[i] = None]_vars

\* A release has just been accepted and recorded on a Detection that had
\* been reminded: the tracker holds the comment and the PATCH.
C19_Witness ==
    /\ response = Responded("release", 200)
    /\ Len(detections) > 0
    /\ detections[1].reminder_sent
    /\ detections[1].unassigned
    /\ posted[<<detections[1].issue, detections[1].assignee_username>>] = 1
    /\ patches[detections[1].issue] = 1
    /\ issues[detections[1].issue].stored
    /\ issues[detections[1].issue].assignee = None

\* C20: a release looks at the issue's present assignee on the tracker
\* before it clears it: when the issue is by now assigned to somebody other
\* than the subject of the issue's Detection, the release sends no PATCH and
\* leaves the tracker's assignee alone.
C20_ReleaseRechecksAssignee ==
    [][\A i \in Issues :
          (/\ ReleaseStep(i)
           /\ FirstForIssue(detections, i) # 0
           /\ ghAssignee[i] # None
           /\ ghAssignee[i] #
                  detections[IF FirstForIssue(detections, i) = 0 THEN 1
                             ELSE FirstForIssue(detections, i)]
                      .assignee_username)
          => /\ patches'[i] = patches[i]
             /\ ghAssignee'[i] = ghAssignee[i]]_vars

\* C21: a failure while one issue of a pass is evaluated (a payload that makes
\* the evaluation raise, or an assignee whose feed cannot be fetched) does not
\* abort the pass: every other issue is still evaluated, so that a stored,
\* open issue with a well-formed payload and an inactive assignee whose feed
\* was fetched is reported by the pass and has its Detection afterwards.
C21_FailureIsIsolated ==
    [][\A evOk \in SUBSET Users, malformed \in SUBSET PassIssues :
          analyze_inactive_contributors(TRUE, evOk, malformed) =>
              \A i \in PassIssues \ malformed :
                  (/\ issues[i].stored
                   /\ ghState[i] = "open"
                   /\ ghAssignee[i] \in evOk
                   /\ InactiveAssignee(i)
                   /\ ghEvents[ghAssignee[i]] # <<>>)
                  => /\ HasDetection(detections', i, ghAssignee[i])
                     /\ \E k \in 1..Len(response'.detections) :
                            response'.detections[k].issue_number = i]_vars

\* C22: a pass considers open issues only: it reports and creates no
\* Detection for an issue that is closed on the tracker; and a Detection
\* whose issue has closed, or has been reassigned to somebody else, is not
\* advanced and triggers no reminder comment, nor (for a closed issue) an
\* assignee-clearing PATCH.
C22_OnlyOpenAssignedIssues ==
    /\ [][AnalyzeStep =>
              \A i \in Issues :
                  ghState[i] = "closed" =>
                      /\ \A k \in 1..Len(response'.detections) :
                             response'.detections[k].issue_number # i
                      /\ \A u \in Users :
                             HasDetection(detections', i, u)
                             => HasDetection(detections, i, u)]_vars
    /\ [][\A k \in 1..Len(detections) :
              LET d == detections[k]
                  closed == ghState[d.issue] = "closed"
                  reassigned == ghAssignee[d.issue] # d.assignee_username
              IN  (closed \/ reassigned) =>
                      /\ posted'[<<d.issue, d.assignee_username>>] =
                             posted[<<d.issue, d.assignee_username>>]
                      /\ closed => patches'[d.issue] = patches[d.issue]
                      /\ k <= Len(detections')
                      /\ detections'[k].reminder_sent = d.reminder_sent
                      /\ detections'[k].unassigned = d.unassigned]_vars

\* C23: the assignee of a stored issue goes from a user to null only in a
\* release request that succeeded (its PATCH was accepted and it answered
\* 200); in particular a re-sync by get_user_issues never clears it.
C23_AssigneeClearedOnlyByRelease ==
    [][\A i \in Issues :
          (/\ issues[i].stored
           /\ issues[i].assignee # None
           /\ issues'[i].assignee = None)
          => /\ patches'[i] = patches[i] + 1
             /\ response' = Responded("release", 200)]_vars

\* C24: a stored activity-log entry is immutable: whatever a later request
\* ingests, every row of the log stays in it with every field unchanged.
C24_LogEntryImmutable ==
    [][\A r \in activityLog : r \in activityLog']_vars

\* A step that handles a send_reminder request for (i, u) whose comment the
\* tracker accepts.
PostedReminderStep(i, u) ==
    \E token \in BOOLEAN, net \in TrackerOutcomes :
        /\ TrackerWriteSucceeds(token, net)
        /\ send_reminder(i, u, token, net)

\* C26: whenever send_reminder posts a comment for an issue that is stored,
\* the request answers 200 and afterwards the pair has a Detection with
\* reminder_sent = true, created by the request when there was none.
C26_PostedReminderIsRecorded ==
    [][\A p \in Pairs :
          (issues[p[1]].stored /\ PostedReminderStep(p[1], p[2]))
          => /\ response' = Responded("remind", 200)
             /\ HasDetection(detections', p[1], p[2])
             /\ DetectionOf(detections', p[1], p[2]).reminder_sent]_vars

\* C27: a release that succeeds on a stored issue marks the Detection of the
\* assignee the issue has at that time (when there is one), and marks no
\* Detection that belongs to another assignee.
C27_ReleaseMarksAssigneesDetection ==
    [][\A i \in Issues :
          (/\ ReleaseStep(i)
           /\ response' = Responded("release", 200)
           /\ issues[i].stored
           /\ ghAssignee[i] # None
           /\ issues[i].assignee = ghAssignee[i])
          => /\ HasDetection(detections, i, ghAssignee[i]) =>
                    DetectionOf(detections', i, ghAssignee[i]).unassigned
             /\ \A k \in 1..Len(detections) :
                    (~detections[k].unassigned /\ detections'[k].unassigned)
                    => detections[k].assignee_username = ghAssignee[i]]_vars

\* C28: an analyze pass changes nothing of an existing Detection but
\* days_inactive and trust_score_at_detection: reminder_sent,
\* reminder_sent_at, unassigned and unassigned_at (and the pair) keep their
\* values.
C28_AnalyzeKeepsEscalation ==
    [][AnalyzeStep =>
          \A k \in 1..Len(detections) :
              /\ k <= Len(detections')
              /\ detections'[k] =
                     [detections[k] EXCEPT
                         !.days_inactive = detections'[k].days_inactive,
                         !.trust_score_at_detection =
                             detections'[k].trust_score_at_detection]]_vars

\* An analyze pass has just reported, and so refreshed, a pair whose
\* Detection is reminded and released.
C28_Witness ==
    /\ response.op = "analyze"
    /\ Len(response.detections) > 0
    /\ \E k \in 1..Len(detections) :
           /\ detections[k].issue = response.detections[1].issue_number
           /\ detections[k].assignee_username = response.detections[1].assignee
           /\ detections[k].reminder_sent
           /\ detections[k].unassigned

\* C29: when an analyze request answers 200, every detection of its answer
\* has its Detection row, whether or not the issue had been synced before.
C29_ReportedIsPersisted ==
    [][AnalyzeStep =>
          (response'.status = 200 =>
              \A k \in 1..Len(response'.detections) :
                  HasDetection(detections',
                               response'.detections[k].issue_number,
                               response'.detections[k].assignee))]_vars

\* A send_reminder or release request served without an access token.
NoTokenStep ==
    \/ \E i \in Issues, u \in Users, net \in TrackerOutcomes :
           send_reminder(i, u, FALSE, net)
    \/ \E i \in Issues, net \in TrackerOutcomes :
           unassign_inactive_user(i, FALSE, net)

\* C30: without an access token the tracker client sends no write request:
\* the tracker receives no comment and no PATCH, the request answers 500, and
\* every Detection and every stored issue stays as it was.
C30_NoTokenNoWrite ==
    [][NoTokenStep =>
          /\ writesSent' = writesSent
          /\ posted' = posted
          /\ patches' = patches
          /\ ghAssignee' = ghAssignee
          /\ detections' = detections
          /\ issues' = issues
          /\ response'.status = 500]_vars

\* A reminder for a stored issue whose Detection is waiting has just been
\* refused, and no write request has ever left the client.
C30_Witness ==
    /\ response = Responded("remind", 500)
    /\ writesSent = 0
    /\ Len(detections) > 0
    /\ ~detections[1].reminder_sent
    /\ issues[detections[1].issue].stored

\* Every request has returned its Response.
AllAnswered == \A r \in 1..Len(inflight) : inflight[r].pc = "done"

\* Some request of kind op has answered 200.
Succeeded(op) ==
    \E r \in 1..Len(inflight) :
        inflight[r].op = op /\ inflight[r].status = 200

\* What the requests leave of Detection row0 when they are served one after
\* the other, in whatever order: the effects of the successful ones.
SerialOutcome(row0) ==
    [row0 EXCEPT
        !.reminder_sent = Succeeded("remind"),
        !.reminder_sent_at = IF Succeeded("remind") THEN now ELSE NullTime,
        !.unassigned = Succeeded("release"),
        !.unassigned_at = IF Succeeded("release") THEN now ELSE NullTime]

\* C25: requests served at once for the same (issue, assignee) never race:
\* once all have answered, the Detection is what serving them one after the
\* other would have left (no update is lost), and the requests together have
\* posted at most one reminder comment.
C25_ConcurrentRequestsSerialize ==
    AllAnswered =>
        /\ detections =
               <<SerialOutcome(
                     NewDetection(1, "alice", DaysInactive,
                         calculate_trust_score(ghEvents["alice"],
                                               now).trust_score))>>
        /\ posted[<<1, "alice">>] <= 1

====
